---- MODULE Spec2Model ----
(***************************************************************************)
(* Model of chatbot.ino: the ESP8266 firmware of a five-servo robot arm.   *)
(* The file holds two sketches.  The first (lines 1-191) steps base,       *)
(* shoulder, elbow and wrist one degree per tick and writes the gripper    *)
(* servo directly; the second (lines 192-402) also steps the gripper.      *)
(* The variable sketch says which of the two is flashed on the board.      *)
(*                                                                         *)
(* A Servo object is modelled by the angle it holds: Servo.write(a) stores *)
(* a, Servo.read() returns the angle last written (Arduino Servo API).     *)
(* One step of the model is one iteration of loop(): either               *)
(* server.handleClient() serves one pending request (handleCommand or      *)
(* handleTelemetry), or no request is pending and the timed block runs     *)
(* (a "tick": an iteration in which millis() - lastMoveTime > MOVE_DELAY). *)
(* request and response hold what that iteration served and answered.      *)
(* Spec and SpecLive do not follow the clock: their ticks are the          *)
(* iterations that find the gate open, and millis, lastMoveTime and        *)
(* elapsed keep their boot values.  SpecTime follows it: there an          *)
(* iteration tests the gate on the 32-bit values of millis() and           *)
(* lastMoveTime, held as two 16-bit halves.                                *)
(* doc[key].as<int>() is modelled for integer values, which it returns     *)
(* as they are.                                                            *)
(***************************************************************************)
EXTENDS Integers, FiniteSets, Sequences, TLC

VARIABLES
    sketch,               \* 1: lines 1-191, 2: lines 192-402
    targetBaseAngle,
    targetShoulderAngle,
    targetElbowAngle,
    targetWristAngle,
    targetGripperAngle,   \* second sketch only (line 222)
    gripperState,         \* FALSE = Open, TRUE = Closed
    baseServo,            \* angle held by each Servo object
    shoulderServo,
    elbowServo,
    wristServo,
    gripperServo,
    request,              \* the HTTP request served by the latest loop() iteration
    response,             \* the HTTP reply sent by that iteration
    millis,               \* value of millis(): unsigned 32 bits, wraps
    lastMoveTime,         \* unsigned long lastMoveTime (lines 36, 228)
    elapsed               \* milliseconds gone by since lastMoveTime was assigned

targets == <<targetBaseAngle, targetShoulderAngle, targetElbowAngle,
             targetWristAngle, targetGripperAngle>>
joints  == <<baseServo, shoulderServo, elbowServo, wristServo>>
servos  == <<baseServo, shoulderServo, elbowServo, wristServo, gripperServo>>
vars    == <<sketch, targetBaseAngle, targetShoulderAngle, targetElbowAngle,
             targetWristAngle, targetGripperAngle, gripperState, baseServo,
             shoulderServo, elbowServo, wristServo, gripperServo, request, response,
             millis, lastMoveTime, elapsed>>
clock   == <<millis, lastMoveTime, elapsed>>

-----------------------------------------------------------------------------
(* Program constants *)

Half          == 65536  \* 2^16: an unsigned long is two halves of 16 bits
MOVE_DELAY    == 20     \* const int MOVE_DELAY = 20 (lines 37, 229)
HomeAngle     == 90     \* initial and EMERGENCY_STOP target of the four joints
BaseMax       == 180
ShoulderMax   == 170
ElbowMax      == 170
WristMax      == 180
GripperAngle1 == 120    \* first sketch: servo angle of a closed gripper
GripperOpen2  == 120    \* second sketch: "120 for open"
GripperClose2 == 0      \* second sketch: "0 for closed"

(* Bounds of the model *)

MaxTravel == 1          \* the servos are explored up to this total distance
                        \* (in degrees) from their boot positions

\* The clock is followed from WrapLead milliseconds before the wrap of
\* millis() to Horizon milliseconds after it, in passes of 1..MaxPass
\* milliseconds.
WrapLead == 25
Horizon == 45
MaxPass == 2

-----------------------------------------------------------------------------
(* Requests *)

Abs(x) == IF x < 0 THEN -x ELSE x

\* Angle values a client sends: below every range, the home angle, above every range.
AngleIn == {-1, 90, 181}
AngleKeys == {"base", "shoulder", "elbow", "wrist"}
EmptyDoc == [k \in {} |-> 0]
Home3 == [base |-> 90, shoulder |-> 90, elbow |-> 90]
Home4 == [base |-> 90, shoulder |-> 90, elbow |-> 90, wrist |-> 90]
OneOff(d) == {d} \cup {[d EXCEPT ![k] = v] : k \in DOMAIN d, v \in AngleIn}

\* The angle fields of a JSON body: none, a single joint, the three joints the
\* first sketch requires, or all four; in the last two at most one joint is
\* sent away from the home angle.
AngleFields ==
    {EmptyDoc} \cup {(k :> v) : k \in AngleKeys, v \in AngleIn}
               \cup OneOff(Home3) \cup OneOff(Home4)

GripperFields ==
    {EmptyDoc} \cup {("gripper" :> g) : g \in {"open", "close", "half"}}

CommandFields ==
    {EmptyDoc} \cup {("command" :> c) : c \in {"GRIPPER_TOGGLE", "EMERGENCY_STOP", "MOVE_LEFT"}}

\* Parsed JSON documents (functions from the keys present to their values).
Docs ==
    {("command" :> "SET_ANGLES") @@ a : a \in AngleFields}
    \cup {("command" :> "SET_ANGLES") @@ a @@ g :
             a \in {EmptyDoc, Home3, Home4}, g \in GripperFields}
    \cup {c @@ g : c \in CommandFields, g \in GripperFields}

\* A POST to /api/arm/command: no body, a body that does not parse, or a document.
Requests ==
    {[path |-> "command", plain |-> "absent"], [path |-> "command", plain |-> "invalid"]}
    \cup {[path |-> "command", plain |-> "json", doc |-> d] : d \in Docs}

IsCommand(req) == req.path = "command"
IsJson(req) == IsCommand(req) /\ req.plain = "json"

\* A GET of /api/arm/telemetry, and an iteration of loop() with no client.
TelemetryRequest == [path |-> "telemetry"]
NoRequest == [path |-> "none"]

-----------------------------------------------------------------------------
(* Library calls used by the sketches *)

\* Variant of constrain that forgets the upper limit.
constrainNoUpper(x, lo, hi) == IF x < lo THEN lo ELSE x

constrain(x, lo, hi) == IF x < lo THEN lo ELSE IF x > hi THEN hi ELSE x

containsKey(doc, k) == k \in DOMAIN doc

\* doc["command"].as<String>(): a missing key reads as the string "null".
commandOf(doc) == IF containsKey(doc, "command") THEN doc["command"] ELSE "null"

-----------------------------------------------------------------------------
(* State after setup() *)

NoResponse == [kind |-> "none", code |-> 0, body |-> ""]

\* Variant of Reply that answers 400 whatever the handler passes.
ReplyAlwaysBad(c, s) == [kind |-> "command", code |-> 400, body |-> s]

\* Variant of Reply that answers 200 whatever the handler passes.
ReplyAlwaysOk(c, s) == [kind |-> "command", code |-> 200, body |-> s]

\* server.send(code, "application/json", "{\"status\":\"...\"}")
Reply(c, s) == [kind |-> "command", code |-> c, body |-> s]

\* The globals' initialisers and setup().
setup ==
    /\ sketch \in {1, 2}
    /\ targetBaseAngle = HomeAngle
    /\ targetShoulderAngle = HomeAngle
    /\ targetElbowAngle = HomeAngle
    /\ targetWristAngle = HomeAngle
    \* the first sketch declares no targetGripperAngle: the variable stays 0 there
    /\ targetGripperAngle = (IF sketch = 2 THEN GripperOpen2 ELSE 0)
    /\ gripperState = FALSE
    /\ baseServo = targetBaseAngle
    /\ shoulderServo = targetShoulderAngle
    /\ elbowServo = targetElbowAngle
    /\ wristServo = targetWristAngle
    /\ gripperServo = (IF sketch = 2 THEN targetGripperAngle
                       ELSE IF gripperState THEN GripperAngle1 ELSE 0)
    /\ request = NoRequest
    /\ response = NoResponse

\* Unsigned 32-bit arithmetic on two 16-bit halves: a - b modulo 2^32,
\* a + d modulo 2^32 for 0 <= d < 2^16, and the comparison of a with a small n.
sub32(a, b) ==
    [hi |-> (a.hi - b.hi - (IF a.lo < b.lo THEN 1 ELSE 0)) % Half,
     lo |-> (a.lo - b.lo) % Half]

add32(a, d) ==
    [hi |-> (a.hi + ((a.lo + d) \div Half)) % Half, lo |-> (a.lo + d) % Half]

gt32(a, n) == a.hi > 0 \/ a.lo > n

Zero32 == [hi |-> 0, lo |-> 0]

\* Variant of gateOpen that compares millis() with lastMoveTime + MOVE_DELAY.
gateOpenBySum(now, last) ==
    LET due == add32(last, MOVE_DELAY)
    IN  now.hi > due.hi \/ (now.hi = due.hi /\ now.lo > due.lo)

\* if (millis() - lastMoveTime > MOVE_DELAY)
gateOpen(now, last) == gt32(sub32(now, last), MOVE_DELAY)

Init ==
    /\ setup
    /\ millis = Zero32
    /\ lastMoveTime = Zero32
    /\ elapsed = 0

-----------------------------------------------------------------------------
(* loop(): the timed block *)

\* Variant of needsStep that compares with > instead of !=.
needsStepGt(current, target) == current > target

\* Variant of needsStep that compares with <= instead of !=.
needsStepLe(current, target) == current <= target

\* Variant of needsStep that compares with < instead of !=.
needsStepLt(current, target) == current < target

\* if (current != target)
needsStep(current, target) == current # target

\* Variant of stepOf that always steps upward.
stepAlwaysUp(target, current) == 1

\* Variant of stepOf with the comparison reversed.
stepReversed(target, current) == IF target < current THEN 1 ELSE -1

\* int step = (target > current) ? 1 : -1;
stepOf(target, current) == IF target > current THEN 1 ELSE -1

loop1 ==
    /\ sketch = 1
    /\ response' = NoResponse
    /\ UNCHANGED <<sketch, targets, gripperState, gripperServo>>
    /\ IF needsStep(baseServo, targetBaseAngle)
         THEN /\ baseServo' = baseServo + stepOf(targetBaseAngle, baseServo)
              /\ UNCHANGED <<shoulderServo, elbowServo, wristServo>>
       ELSE IF needsStep(shoulderServo, targetShoulderAngle)
         THEN /\ shoulderServo' = shoulderServo + stepOf(targetShoulderAngle, shoulderServo)
              /\ UNCHANGED <<baseServo, elbowServo, wristServo>>
       ELSE IF needsStep(elbowServo, targetElbowAngle)
         THEN /\ elbowServo' = elbowServo + stepOf(targetElbowAngle, elbowServo)
              /\ UNCHANGED <<baseServo, shoulderServo, wristServo>>
       ELSE IF needsStep(wristServo, targetWristAngle)
         THEN /\ wristServo' = wristServo + stepOf(targetWristAngle, wristServo)
              /\ UNCHANGED <<baseServo, shoulderServo, elbowServo>>
       ELSE UNCHANGED joints

\* Variant of loop2 without the return after each write: every servo that is
\* away from its target steps in the same iteration.
loop2NoReturn ==
    /\ sketch = 2
    /\ response' = NoResponse
    /\ UNCHANGED <<sketch, targets, gripperState>>
    /\ baseServo' = IF needsStep(baseServo, targetBaseAngle)
                       THEN baseServo + stepOf(targetBaseAngle, baseServo)
                       ELSE baseServo
    /\ shoulderServo' = IF needsStep(shoulderServo, targetShoulderAngle)
                           THEN shoulderServo + stepOf(targetShoulderAngle, shoulderServo)
                           ELSE shoulderServo
    /\ elbowServo' = IF needsStep(elbowServo, targetElbowAngle)
                        THEN elbowServo + stepOf(targetElbowAngle, elbowServo)
                        ELSE elbowServo
    /\ wristServo' = IF needsStep(wristServo, targetWristAngle)
                        THEN wristServo + stepOf(targetWristAngle, wristServo)
                        ELSE wristServo
    /\ gripperServo' = IF needsStep(gripperServo, targetGripperAngle)
                          THEN gripperServo + stepOf(targetGripperAngle, gripperServo)
                          ELSE gripperServo

loop2 ==
    /\ sketch = 2
    /\ response' = NoResponse
    /\ UNCHANGED <<sketch, targets, gripperState>>
    /\ IF needsStep(baseServo, targetBaseAngle)
         THEN /\ baseServo' = baseServo + stepOf(targetBaseAngle, baseServo)
              /\ UNCHANGED <<shoulderServo, elbowServo, wristServo, gripperServo>>
       ELSE IF needsStep(shoulderServo, targetShoulderAngle)
         THEN /\ shoulderServo' = shoulderServo + stepOf(targetShoulderAngle, shoulderServo)
              /\ UNCHANGED <<baseServo, elbowServo, wristServo, gripperServo>>
       ELSE IF needsStep(elbowServo, targetElbowAngle)
         THEN /\ elbowServo' = elbowServo + stepOf(targetElbowAngle, elbowServo)
              /\ UNCHANGED <<baseServo, shoulderServo, wristServo, gripperServo>>
       ELSE IF needsStep(wristServo, targetWristAngle)
         THEN /\ wristServo' = wristServo + stepOf(targetWristAngle, wristServo)
              /\ UNCHANGED <<baseServo, shoulderServo, elbowServo, gripperServo>>
       ELSE IF needsStep(gripperServo, targetGripperAngle)
         THEN /\ gripperServo' = gripperServo + stepOf(targetGripperAngle, gripperServo)
              /\ UNCHANGED joints
       ELSE UNCHANGED servos

-----------------------------------------------------------------------------
(* handleCommand() *)

\* Variant of gripperFieldState with the two branches swapped.
gripperFieldSwapped(doc, old) ==
    IF containsKey(doc, "gripper") /\ doc["gripper"] = "open" THEN TRUE
    ELSE IF containsKey(doc, "gripper") /\ doc["gripper"] = "close" THEN FALSE
    ELSE old

\* if (gripperCmd == "open") ... else if (gripperCmd == "close") ...
\* The value an explicit gripper field gives gripperState; old when the field
\* is absent or is another string.
gripperFieldState(doc, old) ==
    IF containsKey(doc, "gripper") /\ doc["gripper"] = "open" THEN FALSE
    ELSE IF containsKey(doc, "gripper") /\ doc["gripper"] = "close" THEN TRUE
    ELSE old

\* Variant of gripperFieldAngle with the two angles swapped.
gripperFieldAngleSwapped(doc, open, close, old) ==
    IF containsKey(doc, "gripper") /\ doc["gripper"] = "open" THEN close
    ELSE IF containsKey(doc, "gripper") /\ doc["gripper"] = "close" THEN open
    ELSE old

\* The angle the same branches write: to the gripper servo in the first sketch
\* (open 0, close 120), to targetGripperAngle in the second (open 120, close 0).
gripperFieldAngle(doc, open, close, old) ==
    IF containsKey(doc, "gripper") /\ doc["gripper"] = "open" THEN open
    ELSE IF containsKey(doc, "gripper") /\ doc["gripper"] = "close" THEN close
    ELSE old

\* First sketch, lines 115-175.
handleCommand1(req) ==
    /\ sketch = 1
    /\ UNCHANGED <<sketch, targetGripperAngle, joints>>
    /\ IF req.plain = "absent" THEN
           /\ response' = Reply(400, "No command provided")
           /\ UNCHANGED <<targetBaseAngle, targetShoulderAngle, targetElbowAngle,
                          targetWristAngle, gripperState, gripperServo>>
       ELSE IF req.plain = "invalid" THEN
           /\ response' = Reply(400, "Invalid JSON")
           /\ UNCHANGED <<targetBaseAngle, targetShoulderAngle, targetElbowAngle,
                          targetWristAngle, gripperState, gripperServo>>
       ELSE LET doc == req.doc
                command == commandOf(doc)
            IN
            IF command = "SET_ANGLES" THEN
               IF containsKey(doc, "base") /\ containsKey(doc, "shoulder")
                                           /\ containsKey(doc, "elbow") THEN
                  /\ targetBaseAngle' = constrain(doc["base"], 0, BaseMax)
                  /\ targetShoulderAngle' = constrain(doc["shoulder"], 0, ShoulderMax)
                  /\ targetElbowAngle' = constrain(doc["elbow"], 0, ElbowMax)
                  /\ targetWristAngle' =
                        (IF containsKey(doc, "wrist")
                         THEN constrain(doc["wrist"], 0, WristMax)
                         ELSE targetWristAngle)
                  /\ gripperServo' = gripperFieldAngle(doc, 0, GripperAngle1, gripperServo)
                  /\ gripperState' = gripperFieldState(doc, gripperState)
                  /\ response' = Reply(200, "Movement initiated")
               ELSE
                  /\ response' = Reply(400, "Missing angle parameters")
                  /\ UNCHANGED <<targetBaseAngle, targetShoulderAngle, targetElbowAngle,
                                 targetWristAngle, gripperState, gripperServo>>
            ELSE IF command = "GRIPPER_TOGGLE" THEN
               /\ gripperState' = ~gripperState
               /\ gripperServo' = (IF gripperState' THEN GripperAngle1 ELSE 0)
               /\ response' = Reply(200, "Gripper toggled")
               /\ UNCHANGED <<targetBaseAngle, targetShoulderAngle, targetElbowAngle,
                              targetWristAngle>>
            ELSE IF command = "EMERGENCY_STOP" THEN
               /\ targetBaseAngle' = HomeAngle
               /\ targetShoulderAngle' = HomeAngle
               /\ targetElbowAngle' = HomeAngle
               /\ targetWristAngle' = HomeAngle
               /\ gripperServo' = 0
               /\ gripperState' = FALSE
               /\ response' = Reply(200, "Stop initiated")
            ELSE
               /\ response' = Reply(400, "Legacy commands not supported")
               /\ UNCHANGED <<targetBaseAngle, targetShoulderAngle, targetElbowAngle,
                              targetWristAngle, gripperState, gripperServo>>

\* Variant of setIfPresent that sends a joint home when its field is absent.
setOrHome(doc, key, hi, old) ==
    IF containsKey(doc, key) THEN constrain(doc[key], 0, hi) ELSE HomeAngle

\* if (doc.containsKey(key)) target = constrain(doc[key].as<int>(), 0, hi);
setIfPresent(doc, key, hi, old) ==
    IF containsKey(doc, key) THEN constrain(doc[key], 0, hi) ELSE old

\* Second sketch, lines 314-386.
handleCommand2(req) ==
    /\ sketch = 2
    /\ UNCHANGED <<sketch, servos>>
    /\ IF req.plain = "absent" THEN
           /\ response' = Reply(400, "No command provided")
           /\ UNCHANGED <<targets, gripperState>>
       ELSE IF req.plain = "invalid" THEN
           /\ response' = Reply(400, "Invalid JSON")
           /\ UNCHANGED <<targets, gripperState>>
       ELSE LET doc == req.doc
                command == commandOf(doc)
            IN
            IF command = "SET_ANGLES" THEN
               /\ targetBaseAngle' = setIfPresent(doc, "base", BaseMax, targetBaseAngle)
               /\ targetShoulderAngle' =
                     setIfPresent(doc, "shoulder", ShoulderMax, targetShoulderAngle)
               /\ targetElbowAngle' = setIfPresent(doc, "elbow", ElbowMax, targetElbowAngle)
               /\ targetWristAngle' = setIfPresent(doc, "wrist", WristMax, targetWristAngle)
               /\ targetGripperAngle' =
                     gripperFieldAngle(doc, GripperOpen2, GripperClose2, targetGripperAngle)
               /\ gripperState' = gripperFieldState(doc, gripperState)
               /\ response' = Reply(200, "Movement initiated")
            ELSE IF command = "GRIPPER_TOGGLE" THEN
               /\ IF containsKey(doc, "gripper") THEN
                      /\ targetGripperAngle' =
                            gripperFieldAngle(doc, GripperOpen2, GripperClose2,
                                              targetGripperAngle)
                      /\ gripperState' = gripperFieldState(doc, gripperState)
                  ELSE
                      /\ gripperState' = ~gripperState
                      /\ targetGripperAngle' = (IF gripperState' THEN 120 ELSE 0)
               /\ response' = Reply(200, "Gripper movement initiated")
               /\ UNCHANGED <<targetBaseAngle, targetShoulderAngle, targetElbowAngle,
                              targetWristAngle>>
            ELSE IF command = "EMERGENCY_STOP" THEN
               /\ targetBaseAngle' = HomeAngle
               /\ targetShoulderAngle' = HomeAngle
               /\ targetElbowAngle' = HomeAngle
               /\ targetWristAngle' = HomeAngle
               /\ targetGripperAngle' = GripperOpen2
               /\ gripperState' = FALSE
               /\ response' = Reply(200, "Stop initiated")
            ELSE
               /\ response' = Reply(400, "Legacy commands not supported")
               /\ UNCHANGED <<targets, gripperState>>

-----------------------------------------------------------------------------
(* handleTelemetry(), lines 178-191 and 389-402 (the same in both sketches) *)

\* Variant of gripperLabel with the two strings swapped.
gripperLabelSwapped(state) == IF state THEN "Open" ELSE "Closed"

\* doc["gripperState"] = gripperState ? "Closed" : "Open";
gripperLabel(state) == IF state THEN "Closed" ELSE "Open"

\* Variant of telemetryDoc that reports the requested angles.
telemetryOfTargets(wifi) ==
    [baseAngle     |-> targetBaseAngle,
     shoulderAngle |-> targetShoulderAngle,
     elbowAngle    |-> targetElbowAngle,
     wristAngle    |-> targetWristAngle,
     gripperState  |-> gripperLabel(gripperState),
     systemStatus  |-> IF wifi THEN "Operational" ELSE "Error",
     boardType     |-> "ESP8266"]

\* wifi: whether WiFi.status() == WL_CONNECTED when the request is served.
telemetryDoc(wifi) ==
    [baseAngle     |-> baseServo,
     shoulderAngle |-> shoulderServo,
     elbowAngle    |-> elbowServo,
     wristAngle    |-> wristServo,
     gripperState  |-> gripperLabel(gripperState),
     systemStatus  |-> IF wifi THEN "Operational" ELSE "Error",
     boardType     |-> "ESP8266"]

handleTelemetry(wifi) ==
    /\ response' = [kind |-> "telemetry", code |-> 200, body |-> telemetryDoc(wifi)]
    /\ UNCHANGED <<sketch, targets, gripperState, servos>>

-----------------------------------------------------------------------------
(* Specifications *)

\* Total distance of the stepped servos from their boot positions.
Travel ==
    Abs(baseServo - HomeAngle) + Abs(shoulderServo - HomeAngle)
    + Abs(elbowServo - HomeAngle) + Abs(wristServo - HomeAngle)
    + (IF sketch = 2 THEN Abs(gripperServo - GripperOpen2) ELSE 0)

Tick1 == loop1 /\ request' = NoRequest /\ Travel' <= MaxTravel /\ UNCHANGED clock
Tick2 == loop2 /\ request' = NoRequest /\ Travel' <= MaxTravel /\ UNCHANGED clock
Command1 == \E req \in Requests : handleCommand1(req) /\ request' = req /\ UNCHANGED clock
Command2 == \E req \in Requests : handleCommand2(req) /\ request' = req /\ UNCHANGED clock
Telemetry ==
    /\ \E wifi \in BOOLEAN : handleTelemetry(wifi) /\ request' = TelemetryRequest
    /\ UNCHANGED clock

Next == Tick1 \/ Tick2 \/ Command1 \/ Command2 \/ Telemetry

Spec == Init /\ [][Next]_vars

\* The specification for convergence.  Ticks are not limited: loop() runs
\* forever and millis() keeps advancing, so the timed block runs again and
\* again (weak fairness).  Clients send commands only while the servos are
\* within MaxTravel of their boot positions, and only documents that name all
\* four joints or none; an emergency stop may arrive at any time, also in the
\* middle of a long motion.
LiveRequests ==
    {req \in Requests :
        IsJson(req) /\ DOMAIN req.doc \cap AngleKeys \in {{}, AngleKeys}}

LiveTick1 == loop1 /\ request' = NoRequest /\ UNCHANGED clock
LiveTick2 == loop2 /\ request' = NoRequest /\ UNCHANGED clock
LiveCommand1 ==
    /\ Travel <= MaxTravel
    /\ \E req \in LiveRequests : handleCommand1(req) /\ request' = req
    /\ UNCHANGED clock
LiveCommand2 ==
    /\ Travel <= MaxTravel
    /\ \E req \in LiveRequests : handleCommand2(req) /\ request' = req
    /\ UNCHANGED clock

StopRequest ==
    [path |-> "command", plain |-> "json", doc |-> [command |-> "EMERGENCY_STOP"]]
LiveStop1 == handleCommand1(StopRequest) /\ request' = StopRequest /\ UNCHANGED clock
LiveStop2 == handleCommand2(StopRequest) /\ request' = StopRequest /\ UNCHANGED clock

NextLive ==
    \/ LiveTick1 \/ LiveTick2
    \/ LiveCommand1 \/ LiveCommand2
    \/ LiveStop1 \/ LiveStop2
    \/ Telemetry

SpecLive ==
    Init /\ [][NextLive]_vars /\ WF_vars(LiveTick1) /\ WF_vars(LiveTick2)

\* The specification for the step rate.  The clock is followed over a window
\* that starts WrapLead milliseconds before millis() wraps and ends Horizon
\* milliseconds after; the board boots at millis() = 0, inside the window, or
\* is met just before the wrap in a state where the gate has just been passed
\* with the arm at rest.  Between two iterations of loop() 1..MaxPass
\* milliseconds go by.  An iteration runs the timed block if the gate is
\* open and changes nothing otherwise; the two calls of millis() in lines
\* 80-81 fall in the same millisecond.  The arm is kept within MaxTravel of
\* its boot position, and the client sends one SET_ANGLES or a stop.
WrapStart == [hi |-> Half - 1, lo |-> Half - WrapLead]

InWindow(t) ==
    LET since == sub32(t, WrapStart)
    IN  since.hi = 0 /\ since.lo <= WrapLead + Horizon

InitTime ==
    /\ setup
    /\ millis \in {Zero32, WrapStart}
    /\ lastMoveTime = millis
    /\ elapsed = 0

TimeRequests ==
    {StopRequest,
     [path |-> "command", plain |-> "json",
      doc |-> [command |-> "SET_ANGLES", base |-> 181, shoulder |-> 90, elbow |-> 90]]}

Pass ==
    \E d \in 1..MaxPass :
        /\ InWindow(add32(millis, d))
        /\ millis' = add32(millis, d)
        /\ elapsed' = elapsed + d
        /\ UNCHANGED <<sketch, targets, gripperState, servos, request, response, lastMoveTime>>

Idle ==
    /\ response' = NoResponse
    /\ request' = NoRequest
    /\ UNCHANGED <<sketch, targets, gripperState, servos, clock>>

TimedLoop1 ==
    /\ sketch = 1
    /\ IF gateOpen(millis, lastMoveTime)
         THEN /\ lastMoveTime' = millis
              /\ elapsed' = 0
              /\ UNCHANGED millis
              /\ loop1 /\ request' = NoRequest /\ Travel' <= MaxTravel
         ELSE Idle

TimedLoop2 ==
    /\ sketch = 2
    /\ IF gateOpen(millis, lastMoveTime)
         THEN /\ lastMoveTime' = millis
              /\ elapsed' = 0
              /\ UNCHANGED millis
              /\ loop2 /\ request' = NoRequest /\ Travel' <= MaxTravel
         ELSE Idle

TimeCommand1 ==
    \E req \in TimeRequests : handleCommand1(req) /\ request' = req /\ UNCHANGED clock
TimeCommand2 ==
    \E req \in TimeRequests : handleCommand2(req) /\ request' = req /\ UNCHANGED clock

NextTime == Pass \/ TimedLoop1 \/ TimedLoop2 \/ TimeCommand1 \/ TimeCommand2

SpecTime == InitTime /\ [][NextTime]_vars

-----------------------------------------------------------------------------
(* Vocabulary of the properties *)

\* The servos the timed block steps, in its order, and the targets it compares
\* them with: four in the first sketch, five in the second.
Stepped == IF sketch = 1 THEN 1..4 ELSE 1..5

AllAtTarget == \A i \in Stepped : servos[i] = targets[i]

TickStep      == response'.kind = "none"
CommandStep   == response'.kind = "command"
TelemetryStep == response'.kind = "telemetry"


-----------------------------------------------------------------------------
\* C1: in both sketches every target stays in its joint's range (base and
\* wrist 0..180, shoulder and elbow 0..170) whatever angles the requests
\* carry, and in the second sketch targetGripperAngle is 0 or 120.
C1_TargetsClamped ==
    /\ targetBaseAngle \in 0..180
    /\ targetWristAngle \in 0..180
    /\ targetShoulderAngle \in 0..170
    /\ targetElbowAngle \in 0..170
    /\ sketch = 2 => targetGripperAngle \in {0, 120}

\* A request carrying 181 for the shoulder and one carrying -1 for the base
\* have been accepted and clamped.
C1_Witness ==
    /\ response.kind = "command" /\ response.code = 200
    /\ targetShoulderAngle = 170
    /\ targetBaseAngle = 0

-----------------------------------------------------------------------------
\* C2: on every tick on which some stepped servo differs from its target,
\* the first such servo in the order base, shoulder, elbow, wrist (gripper)
\* moves by exactly one degree, ending one degree closer to its target, and
\* every other servo angle and every target is unchanged.
C2_OneJointPerTick ==
    [][ (TickStep /\ ~AllAtTarget) =>
          LET f == CHOOSE i \in Stepped :
                      /\ servos[i] # targets[i]
                      /\ \A j \in Stepped : j < i => servos[j] = targets[j]
          IN  /\ Abs(servos'[f] - servos[f]) = 1
              /\ Abs(servos'[f] - targets[f]) = Abs(servos[f] - targets[f]) - 1
              /\ \A i \in 1..5 : i # f => servos'[i] = servos[i]
              /\ targets' = targets ]_vars

\* A tick has stepped the shoulder while the base rests at its target and the
\* wrist, also away from its target, still waits for its turn.
C2_Witness ==
    /\ response.kind = "none"
    /\ baseServo = targetBaseAngle
    /\ shoulderServo = 91 /\ targetShoulderAngle = 170
    /\ wristServo # targetWristAngle

-----------------------------------------------------------------------------
\* What the request is, read off the request alone.
Names == {"SET_ANGLES", "GRIPPER_TOGGLE", "EMERGENCY_STOP"}

NamedCommand(req, name) ==
    IsJson(req) /\ "command" \in DOMAIN req.doc /\ req.doc["command"] = name

UnknownCommand(req) ==
    IsJson(req) /\ ("command" \notin DOMAIN req.doc \/ req.doc["command"] \notin Names)

LacksRequired(req) ==
    NamedCommand(req, "SET_ANGLES") /\ ~({"base", "shoulder", "elbow"} \subseteq DOMAIN req.doc)

\* C3 as stated: in both sketches a command request is answered 400 when it
\* has no body, is not valid JSON, is a SET_ANGLES lacking base, shoulder or
\* elbow, or names no known command, and 200 otherwise.
C3_Original ==
    IsCommand(request) =>
        response.code = (IF \/ ~IsJson(request)
                            \/ LacksRequired(request)
                            \/ UnknownCommand(request)
                         THEN 400 ELSE 200)

\* C3 as amended: the same, except that only the first sketch requires base,
\* shoulder and elbow; the second sketch treats every angle field as optional
\* and answers a SET_ANGLES lacking them with 200.
C3_Malformed400 ==
    IsCommand(request) =>
        response.code = (IF \/ ~IsJson(request)
                            \/ (sketch = 1 /\ LacksRequired(request))
                            \/ UnknownCommand(request)
                         THEN 400 ELSE 200)

\* Each malformed case has been answered (the four bodies name the four
\* cases); here the first sketch has rejected a SET_ANGLES for missing fields.
C3_Witness ==
    /\ sketch = 1
    /\ LacksRequired(request)
    /\ response.code = 400
    /\ response.body = "Missing angle parameters"

-----------------------------------------------------------------------------
\* C4 as stated (second sketch): gripperState is TRUE (Closed) exactly when
\* targetGripperAngle is the closed angle 0 and FALSE (Open) exactly when it
\* is the open angle 120.
C4_GripperSync ==
    sketch = 2 =>
        /\ gripperState = TRUE  <=> targetGripperAngle = 0
        /\ gripperState = FALSE <=> targetGripperAngle = 120

-----------------------------------------------------------------------------
\* C5: a telemetry request is answered 200 with baseAngle, shoulderAngle,
\* elbowAngle and wristAngle equal to the angles the four servos hold, and
\* changes no target, no servo angle and not the gripper flag.
C5_TelemetryReadBack ==
    [][ TelemetryStep =>
          /\ response'.code = 200
          /\ response'.body.baseAngle = baseServo
          /\ response'.body.shoulderAngle = shoulderServo
          /\ response'.body.elbowAngle = elbowServo
          /\ response'.body.wristAngle = wristServo
          /\ UNCHANGED <<targets, gripperState, servos>> ]_vars

\* Telemetry was served while the base was on its way: the reply carries the
\* servo's 89, not the target 0.
C5_Witness ==
    /\ response.kind = "telemetry"
    /\ response.body.baseAngle = 89
    /\ baseServo = 89
    /\ targetBaseAngle = 0

-----------------------------------------------------------------------------
CarriesGripper(req, g) ==
    IsJson(req) /\ "gripper" \in DOMAIN req.doc /\ req.doc["gripper"] = g

SetsGripper(req) ==
    NamedCommand(req, "SET_ANGLES") \/ NamedCommand(req, "GRIPPER_TOGGLE")

\* C6 as stated: in both sketches, once a request that sets the gripper has
\* carried gripper "open" the flag is FALSE, and once it has carried "close"
\* the flag is TRUE; ticks and telemetry requests never change the flag.
C6_Original ==
    [][ /\ (SetsGripper(request') /\ CarriesGripper(request', "open"))
              => gripperState' = FALSE
        /\ (SetsGripper(request') /\ CarriesGripper(request', "close"))
              => gripperState' = TRUE
        /\ (TickStep \/ TelemetryStep) => gripperState' = gripperState ]_vars

\* The requests whose gripper field the handler honours: an accepted
\* SET_ANGLES in either sketch, a GRIPPER_TOGGLE in the second sketch.
Honoured(req, g) ==
    /\ CarriesGripper(req, g)
    /\ \/ NamedCommand(req, "SET_ANGLES") /\ ~(sketch = 1 /\ LacksRequired(req))
       \/ NamedCommand(req, "GRIPPER_TOGGLE") /\ sketch = 2

\* C6 as amended: an honoured request carrying "open" leaves the flag FALSE
\* and one carrying "close" leaves it TRUE; a SET_ANGLES rejected by the first
\* sketch leaves the flag as it was whatever gripper field it carries; the
\* first sketch's GRIPPER_TOGGLE ignores the field and inverts the flag; an
\* accepted SET_ANGLES with no gripper field, or with another string in it,
\* leaves the flag as it was; ticks and telemetry never change the flag.
C6_GripperTracksCommand ==
    [][ /\ Honoured(request', "open") => gripperState' = FALSE
        /\ Honoured(request', "close") => gripperState' = TRUE
        /\ (sketch = 1 /\ LacksRequired(request')) => gripperState' = gripperState
        /\ (sketch = 1 /\ NamedCommand(request', "GRIPPER_TOGGLE"))
              => gripperState' = ~gripperState
        /\ ( /\ NamedCommand(request', "SET_ANGLES")
             /\ ~CarriesGripper(request', "open")
             /\ ~CarriesGripper(request', "close") ) => gripperState' = gripperState
        /\ (TickStep \/ TelemetryStep) => gripperState' = gripperState ]_vars

\* The second sketch's gripper had started to close (its servo is at 119) when
\* a request carrying "open" arrived; the flag follows that last request.
C6_Witness ==
    /\ sketch = 2
    /\ gripperServo = 119
    /\ Honoured(request, "open")
    /\ gripperState = FALSE

-----------------------------------------------------------------------------
\* C8: a tick taken when every stepped servo is at its target changes no
\* servo angle, no target and not the gripper flag.
C8_TickNoOpAtTarget ==
    [][ (TickStep /\ AllAtTarget) => UNCHANGED <<servos, targets, gripperState>> ]_vars

\* A tick has run after a command closed the gripper, with every stepped servo
\* at its target.
C8_Witness ==
    /\ response.kind = "none"
    /\ AllAtTarget
    /\ gripperState = TRUE

-----------------------------------------------------------------------------
\* C9: no command request changes the angle of the base, shoulder, elbow or
\* wrist servo (nor, in the second sketch, of the gripper servo); and a tick
\* moves a servo only toward the target as the latest command left it, also
\* when that reverses the servo's direction.
C9_CommandsOnlySetTargets ==
    [][ /\ CommandStep =>
              /\ UNCHANGED joints
              /\ sketch = 2 => gripperServo' = gripperServo
        /\ TickStep =>
              \A i \in Stepped :
                  servos'[i] # servos[i] =>
                      Abs(servos'[i] - targets[i]) < Abs(servos[i] - targets[i]) ]_vars

\* The base had moved down to 89 when a command replaced its target by 180:
\* the servo still holds 89, and the tick that follows must turn it around.
C9_Witness ==
    /\ IsCommand(request)
    /\ response.code = 200
    /\ baseServo = 89
    /\ targetBaseAngle = 180

-----------------------------------------------------------------------------
\* C10 as stated (second sketch): when telemetry reports "Closed" the
\* gripper servo holds the closed angle 0, and when it reports "Open" the
\* gripper servo holds the open angle 120.  It is stated here for the states
\* in which the flag agrees with the gripper target, so that a violation does
\* not rest on the GRIPPER_TOGGLE branch that C4 is about.
C10_Original ==
    (sketch = 2 /\ response.kind = "telemetry" /\ C4_GripperSync) =>
        /\ response.body.gripperState = "Closed" => gripperServo = 0
        /\ response.body.gripperState = "Open" => gripperServo = 120

\* C10 as amended: telemetry reports the gripperState flag, not the gripper
\* servo: "Closed" exactly when the flag is TRUE and "Open" exactly when it is
\* FALSE, wherever the gripper servo is.
C10_TelemetryReportsFlag ==
    response.kind = "telemetry" =>
        /\ response.body.gripperState = "Closed" <=> gripperState = TRUE
        /\ response.body.gripperState = "Open" <=> gripperState = FALSE

\* The second sketch reports "Closed" while the gripper servo, one step into
\* closing, holds 119.
C10_Witness ==
    /\ sketch = 2
    /\ response.kind = "telemetry"
    /\ response.body.gripperState = "Closed"
    /\ gripperServo = 119

-----------------------------------------------------------------------------
\* C7: if from some point on no command request arrives, then (ticks being
\* weakly fair) from some point on every stepped servo is at its target.
C7_Converges ==
    <>[][~CommandStep]_vars => <>[]AllAtTarget

\* The second sketch has converged on a closed gripper and a base at 0, each
\* the full way from its boot position.
C7_Witness ==
    /\ sketch = 2
    /\ AllAtTarget
    /\ gripperServo = 0
    /\ baseServo = 0

-----------------------------------------------------------------------------
\* C11: in both sketches a command request answered 400 leaves the four
\* joint targets, the gripper target, every servo angle and gripperState as
\* they were, also when it carries wrist or gripper fields.
C11_RejectedChangesNothing ==
    [][ (CommandStep /\ response'.code = 400) =>
          UNCHANGED <<targets, servos, gripperState>> ]_vars

\* The first sketch has rejected a SET_ANGLES that carried only a wrist angle
\* of 181; the wrist target is still 90.
C11_Witness ==
    /\ sketch = 1
    /\ LacksRequired(request)
    /\ "wrist" \in DOMAIN request.doc /\ request.doc["wrist"] = 181
    /\ response.code = 400
    /\ targetWristAngle = 90

-----------------------------------------------------------------------------
\* The range of each joint as the data model gives it.
Clamped(v, hi) == IF v < 0 THEN 0 ELSE IF v > hi THEN hi ELSE v

JointKey == <<"base", "shoulder", "elbow", "wrist">>
JointMax == <<180, 170, 170, 180>>

Accepted(req, name) == NamedCommand(req, name) /\ response'.code = 200

\* C12: an accepted SET_ANGLES sets the target of each joint whose field it
\* carries to that value clamped to the joint's range and leaves the target
\* of every other joint unchanged; when its gripper field is absent or is
\* another string than "open"/"close", gripperState, the gripper target and
\* the gripper servo are unchanged.  A SET_ANGLES is accepted whatever its
\* gripper field (the second sketch accepts every SET_ANGLES, the first every
\* one that carries base, shoulder and elbow).
C12_SetAnglesFrame ==
    [][ /\ Accepted(request', "SET_ANGLES") =>
              /\ \A i \in 1..4 :
                    targets'[i] =
                        IF JointKey[i] \in DOMAIN request'.doc
                        THEN Clamped(request'.doc[JointKey[i]], JointMax[i])
                        ELSE targets[i]
              /\ (~CarriesGripper(request', "open") /\ ~CarriesGripper(request', "close"))
                    => UNCHANGED <<gripperState, targetGripperAngle, gripperServo>>
        /\ ( /\ NamedCommand(request', "SET_ANGLES")
             /\ ~(sketch = 1 /\ LacksRequired(request')) ) => response'.code = 200 ]_vars

\* The second sketch has accepted a SET_ANGLES carrying only shoulder 181: the
\* shoulder target is clamped to 170 and the base target, set to 0 by an
\* earlier request, is kept.
C12_Witness ==
    /\ sketch = 2
    /\ NamedCommand(request, "SET_ANGLES")
    /\ DOMAIN request.doc = {"command", "shoulder"}
    /\ request.doc["shoulder"] = 181
    /\ targetShoulderAngle = 170
    /\ targetBaseAngle = 0
    /\ response.code = 200

-----------------------------------------------------------------------------
\* The angle the gripper is commanded to: the angle written to its servo in
\* the first sketch, targetGripperAngle in the second.
Commanded == IF sketch = 1 THEN gripperServo ELSE targetGripperAngle

\* C13 as stated: in both sketches a GRIPPER_TOGGLE without a gripper field
\* inverts gripperState and switches the commanded gripper angle to the other
\* of 0 and 120 (so that two such toggles in a row restore both), and leaves
\* the four joint targets unchanged.
C13_ToggleFlips ==
    [][ ( /\ NamedCommand(request', "GRIPPER_TOGGLE")
          /\ "gripper" \notin DOMAIN request'.doc ) =>
            /\ gripperState' = ~gripperState
            /\ Commanded' = 120 - Commanded
            /\ \A i \in 1..4 : targets'[i] = targets[i] ]_vars

-----------------------------------------------------------------------------
JointsHome ==
    baseServo = 90 /\ shoulderServo = 90 /\ elbowServo = 90 /\ wristServo = 90

StopServed == NamedCommand(request, "EMERGENCY_STOP")

OtherCommandServed == response.kind = "command" /\ ~StopServed

\* C14: an EMERGENCY_STOP, served in any state, sets the four joint targets
\* to 90 and gripperState to false, commands the gripper open (servo written
\* to 0 in the first sketch, targetGripperAngle 120 in the second), answers
\* 200 and changes no joint servo; and once a stop is served the ticks bring
\* every joint servo to 90 unless another command is served first.
C14_StopHomes ==
    /\ [][ NamedCommand(request', "EMERGENCY_STOP") =>
              /\ \A i \in 1..4 : targets'[i] = 90
              /\ gripperState' = FALSE
              /\ sketch = 1 => gripperServo' = 0
              /\ sketch = 2 => targetGripperAngle' = 120
              /\ response'.code = 200
              /\ joints' = joints ]_vars
    /\ StopServed ~> (JointsHome \/ OtherCommandServed)

\* The first sketch has just served a stop with the base servo at 0 and the
\* gripper closed before it: the base is 90 steps from home.
C14_Witness ==
    /\ sketch = 1
    /\ StopServed
    /\ baseServo = 0
    /\ targetBaseAngle = 90
    /\ gripperServo = 0
    /\ ~gripperState

-----------------------------------------------------------------------------
\* C15: in every reachable state the base and wrist servos are in 0..180,
\* the shoulder and elbow servos in 0..170 and the gripper servo in 0..120,
\* also while a joint is stepping and after its target changed mid-motion.
C15_ServosInRange ==
    /\ baseServo \in 0..180
    /\ wristServo \in 0..180
    /\ shoulderServo \in 0..170
    /\ elbowServo \in 0..170
    /\ gripperServo \in 0..120

\* The shoulder went all the way to its limit of 170, was called home by a
\* stop and has taken its first step back.
C15_Witness ==
    /\ shoulderServo = 169
    /\ targetShoulderAngle = 90
    /\ response.kind = "none"

-----------------------------------------------------------------------------
\* The steps still owed: the sum over the stepped servos of their distance to
\* target.
Owed ==
    Abs(baseServo - targetBaseAngle) + Abs(shoulderServo - targetShoulderAngle)
    + Abs(elbowServo - targetElbowAngle) + Abs(wristServo - targetWristAngle)
    + (IF sketch = 2 THEN Abs(gripperServo - targetGripperAngle) ELSE 0)

\* C16: the joints move strictly in priority order and every tick pays off
\* exactly one owed step: a tick changes a stepped servo only when every
\* servo before it in the order base, shoulder, elbow, wrist, gripper is at
\* its target, and it lowers the sum of the distances to target by exactly
\* one until that sum is 0; so N ticks after a command that left the sum at
\* N, and not before, all joints are at target.
C16_SerializedExactCount ==
    [][ TickStep =>
          /\ \A i \in Stepped :
                servos'[i] # servos[i] => \A j \in 1..(i - 1) : servos[j] = targets[j]
          /\ Owed' = IF Owed = 0 THEN 0 ELSE Owed - 1
          /\ AllAtTarget <=> Owed = 0 ]_vars

\* The second sketch was told base 0 and gripper closed: the base has
\* finished its 90 steps and the gripper is half way through its 120.
C16_Witness ==
    /\ sketch = 2
    /\ baseServo = 0 /\ targetBaseAngle = 0
    /\ gripperServo = 60 /\ targetGripperAngle = 0
    /\ Owed = 60
    /\ response.kind = "none"

-----------------------------------------------------------------------------
\* C17: in the first sketch, in every reachable state, the angle last written
\* to the gripper servo is 120 exactly when gripperState is true and 0
\* exactly when it is false, and no tick writes the gripper servo.
C17_GripperMatchesFlag ==
    /\ [](sketch = 1 =>
            /\ gripperServo = 120 <=> gripperState
            /\ gripperServo = 0 <=> ~gripperState)
    /\ [][ (sketch = 1 /\ TickStep) => gripperServo' = gripperServo ]_vars

\* The first sketch's gripper was closed by a toggle and a joint has stepped
\* since.
C17_Witness ==
    /\ sketch = 1
    /\ gripperState
    /\ gripperServo = 120
    /\ baseServo = 91
    /\ response.kind = "none"

-----------------------------------------------------------------------------
\* An iteration of loop() with no client: it answers nothing and the clock
\* does not advance within it.
LoopStep == TickStep /\ millis' = millis

\* C18: a joint step is taken only when more than MOVE_DELAY (20)
\* milliseconds have gone by since lastMoveTime was last assigned, so two
\* steps in a row are more than 20 ms apart, and an iteration that comes more
\* than 20 ms after the last assignment does pass the gate (it assigns
\* lastMoveTime again and steps a joint that is away from its target); both
\* also when millis() has wrapped from 2^32-1 to 0 in between.
C18_StepRate ==
    [][ LoopStep =>
          /\ servos' # servos => elapsed > 20
          /\ lastMoveTime' # lastMoveTime => elapsed > 20
          /\ elapsed > 20 => (lastMoveTime' = millis /\ elapsed' = 0)
          /\ (elapsed > 20 /\ ~AllAtTarget) => servos' # servos ]_vars

\* The base has stepped at millis() = 3, just after the wrap, on a gate that
\* measured more than 20 milliseconds from a lastMoveTime set before the wrap
\* (after boot the gate cannot be passed before millis() = 21).
C18_Witness ==
    /\ baseServo = 91
    /\ response.kind = "none"
    /\ elapsed = 0
    /\ lastMoveTime = [hi |-> 0, lo |-> 3]

====
